---- MODULE Spec2Model ----
(***************************************************************************)
(* Dalvik Opcode Explorer (dalvikpedia.py): one run of main().             *)
(*                                                                         *)
(* A Python str is modelled as a sequence of one-character strings, so     *)
(* that lower(), strip(), split(), replace(), zfill(), startswith() and    *)
(* the substring test `in` are computed character by character.  A dict is *)
(* modelled as a sequence of [k, v] entries in insertion order (Python     *)
(* dicts keep the position of a key's first insertion when it is           *)
(* overwritten).                                                           *)
(***************************************************************************)
EXTENDS Integers, Sequences, FiniteSets, TLC

VARIABLES pc, args, table, opcodes, names, hexes, search_term, result,
          output, exit_code, uncaught, fetches

vars == <<pc, args, table, opcodes, names, hexes, search_term, result,
          output, exit_code, uncaught, fetches>>

(***************************************************************************)
(* Bounds.                                                                 *)
(***************************************************************************)
MaxRows == 2

(***************************************************************************)
(* Python values.                                                          *)
(***************************************************************************)
\* None where a dict (or an object) may stand
None == [none |-> TRUE]

\* None, or an unassigned local, where a str may stand
NoneStr == <<"None">>

\* {}
EmptyDict == [key \in {} |-> << >>]

EmptyStr == << >>

\* bool(v) of an Optional[str] and of an Optional[Dict]
TruthyStr(v) == v # NoneStr /\ v # EmptyStr

TruthyDict(v) == v # None /\ v # EmptyDict

(***************************************************************************)
(* str methods.                                                            *)
(***************************************************************************)
UpperLetters ==
  <<"A","B","C","D","E","F","G","H","I","J","K","L","M",
    "N","O","P","Q","R","S","T","U","V","W","X","Y","Z">>

LowerLetters ==
  <<"a","b","c","d","e","f","g","h","i","j","k","l","m",
    "n","o","p","q","r","s","t","u","v","w","x","y","z">>

LowerChar(c) ==
  IF \E i \in 1..Len(UpperLetters) : UpperLetters[i] = c
    THEN LowerLetters[CHOOSE i \in 1..Len(UpperLetters) : UpperLetters[i] = c]
    ELSE c

Lower(s) == [i \in 1..Len(s) |-> LowerChar(s[i])]

IsSpace(c) == c \in {" ", "\n", "\t"}

Strip(s) ==
  LET keep == {i \in 1..Len(s) : ~IsSpace(s[i])}
  IN  IF keep = {} THEN EmptyStr
      ELSE LET lo == CHOOSE i \in keep : \A j \in keep : i <= j
               hi == CHOOSE i \in keep : \A j \in keep : j <= i
           IN  SubSeq(s, lo, hi)

\* s.split()[0] for a str that holds at least one non-space character
FirstToken(s) ==
  LET keep  == {i \in 1..Len(s) : ~IsSpace(s[i])}
      lo    == CHOOSE i \in keep : \A j \in keep : i <= j
      stops == {i \in lo..Len(s) : IsSpace(s[i])}
      hi    == IF stops = {} THEN Len(s)
               ELSE (CHOOSE i \in stops : \A j \in stops : i <= j) - 1
  IN  SubSeq(s, lo, hi)

StartsWith(s, p) == Len(p) <= Len(s) /\ SubSeq(s, 1, Len(p)) = p

\* sub in s
Contains(sub, s) ==
  /\ Len(sub) <= Len(s)
  /\ \E i \in 0..(Len(s) - Len(sub)) : SubSeq(s, i + 1, i + Len(sub)) = sub

RECURSIVE ReplaceAll(_, _)
\* s.replace(old, ''): every non-overlapping occurrence, left to right
ReplaceAll(s, old) ==
  IF Len(s) < Len(old) THEN s
  ELSE IF SubSeq(s, 1, Len(old)) = old
         THEN ReplaceAll(SubSeq(s, Len(old) + 1, Len(s)), old)
         ELSE <<s[1]>> \o ReplaceAll(Tail(s), old)

Zeros(n) == [i \in 1..n |-> "0"]

\* s.zfill(width): zeros go after a leading sign
Zfill(s, width) ==
  IF Len(s) >= width THEN s
  ELSE IF Len(s) > 0 /\ s[1] \in {"+", "-"}
         THEN <<s[1]>> \o Zeros(width - Len(s)) \o Tail(s)
         ELSE Zeros(width - Len(s)) \o s

(***************************************************************************)
(* dict methods.                                                           *)
(***************************************************************************)
DictHas(d, k) == \E i \in 1..Len(d) : d[i].k = k

DictGet(d, k, default) ==
  IF DictHas(d, k) THEN d[CHOOSE i \in 1..Len(d) : d[i].k = k].v ELSE default

DictSet(d, k, v) ==
  IF DictHas(d, k)
    THEN [i \in 1..Len(d) |-> IF d[i].k = k THEN [k |-> k, v |-> v] ELSE d[i]]
    ELSE Append(d, [k |-> k, v |-> v])

(***************************************************************************)
(* String literals of the program and of the inputs.                       *)
(***************************************************************************)
HexPrefix == <<"h","e","x",":">>

ZeroX == <<"0","x">>

S_const == <<"c","o","n","s","t">>

S_Const4vx == <<"C","o","n","s","t","/","4"," ","v","x">>

S_hex0a == <<"h","e","x",":","0","a">>

S_0A == <<"0","A">>

S_0a == <<"0","a">>

S_expl == <<"d">>

S_example == <<"0","a","\n","1">>

\* cell texts of the fetched table
HexCells == {EmptyStr, S_0A, S_0a}

NameCells == {EmptyStr, S_const, S_Const4vx, S_hex0a}

\* a <tr> is the sequence of the texts of its <td> cells
RowPool ==
  {<<h, n, S_expl>> : h \in HexCells, n \in NameCells}
    \cup {<<S_0a, S_const>>, <<S_0A, S_Const4vx, EmptyStr, S_example>>}

RECURSIVE SeqsUpTo(_, _)
SeqsUpTo(S, n) ==
  IF n = 0 THEN {<< >>}
  ELSE LET shorter == SeqsUpTo(S, n - 1)
       IN  shorter \cup {Append(t, x) : t \in {u \in shorter : Len(u) = n - 1}, x \in S}

\* what requests.get / raise_for_status / soup.find('table') can produce
Responses ==
  {[status |-> st, has_table |-> FALSE, rows |-> << >>] :
      st \in {"ConnectionError", "Timeout", "HTTPError", "ok"}}
    \cup {[status |-> "ok", has_table |-> TRUE, rows |-> r] :
            r \in SeqsUpTo(RowPool, MaxRows)}

\* values of --name and of --hex
NameArgs ==
  { EmptyStr,
    <<"C","O","N","S","T"," ">>,
    <<"c","o","n">>,
    <<"c","o","n","s","t","/","4"," ","v","x">>,
    S_hex0a }

HexArgs ==
  { EmptyStr,
    S_0A,
    <<"0","X","0","a">>,
    <<"a">>,
    <<"a","0","x">>,
    <<"f","f">> }

(***************************************************************************)
(* DalvikOpcodeExplorer.fetch_opcodes                                      *)
(***************************************************************************)
MakeRecord(opcode_hex, base_name, opcode_name, explanation, example) ==
  [hex |-> opcode_hex, name |-> base_name, full_name |-> opcode_name,
   explanation |-> explanation, example |-> example]

\* opcode_name.split()[0] if opcode_name else ""
BaseName(opcode_name) ==
  IF opcode_name = EmptyStr THEN EmptyStr ELSE FirstToken(opcode_name)

RowRecord(row) ==
  LET opcode_name == Strip(row[2])
  IN  MakeRecord(Strip(row[1]), BaseName(opcode_name), opcode_name,
                 IF Len(row) > 2 THEN Strip(row[3]) ELSE EmptyStr,
                 IF Len(row) > 3 THEN Strip(row[4]) ELSE EmptyStr)

\* the key under which line 52 stores a row
NameKey(base_name) == Lower(base_name)

\* the key under which line 62 stores a row
HexKey(opcode_hex) == HexPrefix \o opcode_hex

\* lines 50-58: st.names keeps what this statement alone has written
StoreByName(st, row) ==
  LET rec == RowRecord(row)
  IN  IF rec.name # EmptyStr
        THEN [st EXCEPT !.opcodes = DictSet(@, NameKey(rec.name), rec),
                        !.names = DictSet(@, NameKey(rec.name), rec),
                        !.name_lower = NameKey(rec.name),
                        !.bound = TRUE]
        ELSE st

\* lines 61-62 with the lookup made under the hex text instead of name_lower
StoreByHexWrongKey(st, row) ==
  LET opcode_hex == Strip(row[1])
  IN  IF opcode_hex = EmptyStr THEN st
      ELSE LET found == DictGet(st.opcodes, opcode_hex, EmptyDict)
           IN  [st EXCEPT !.opcodes = DictSet(@, HexKey(opcode_hex), found),
                          !.hexes = DictSet(@, opcode_hex, found)]

\* lines 61-62: name_lower is the local last assigned by line 51, if ever;
\* st.hexes keeps what this statement alone has written, without the prefix
StoreByHex(st, row) ==
  LET opcode_hex == Strip(row[1])
  IN  IF opcode_hex = EmptyStr THEN st
      ELSE IF ~st.bound THEN [st EXCEPT !.raised = "UnboundLocalError"]
      ELSE LET found == DictGet(st.opcodes, st.name_lower, EmptyDict)
           IN  [st EXCEPT !.opcodes = DictSet(@, HexKey(opcode_hex), found),
                          !.hexes = DictSet(@, opcode_hex, found)]

\* lines 38-62: one iteration of the loop over the rows
ParseRow(st, row) ==
  IF st.raised # "" THEN st
  ELSE IF Len(row) >= 3 THEN StoreByHex(StoreByName(st, row), row)
  ELSE st

RECURSIVE ParseRows(_, _)
ParseRows(st, rows) ==
  IF rows = << >> THEN st ELSE ParseRows(ParseRow(st, Head(rows)), Tail(rows))

NewExplorer ==
  [opcodes |-> << >>, names |-> << >>, hexes |-> << >>,
   name_lower |-> EmptyStr, bound |-> FALSE, raised |-> "", prints |-> << >>]

\* lines 23-62: the body of the try statement
TryBody(resp) ==
  IF resp.status # "ok" THEN [NewExplorer EXCEPT !.raised = resp.status]
  ELSE IF ~resp.has_table
    THEN [NewExplorer EXCEPT !.prints = <<"error_no_table">>,
                             !.raised = "SystemExit"]
  ELSE ParseRows(NewExplorer, resp.rows)

\* the except clauses as if line 67 read `except BaseException`
CatchesBaseException(cls, exc) ==
  CASE cls = "RequestException" ->
         exc \in {"ConnectionError", "Timeout", "HTTPError"}
    [] cls = "Exception" ->
         exc \in {"ConnectionError", "Timeout", "HTTPError", "UnboundLocalError",
                  "SystemExit"}
    [] OTHER -> FALSE

\* the exception classes an except clause for cls catches
Catches(cls, exc) ==
  CASE cls = "RequestException" ->
         exc \in {"ConnectionError", "Timeout", "HTTPError"}
    [] cls = "Exception" ->
         exc \in {"ConnectionError", "Timeout", "HTTPError", "UnboundLocalError"}
    [] OTHER -> FALSE

\* lines 64-69: the except clauses; each prints and calls sys.exit(1)
ExceptClauses(st) ==
  IF st.raised = "" THEN st
  ELSE IF Catches("RequestException", st.raised)
    THEN [st EXCEPT !.prints = Append(@, "error_fetching"), !.raised = "SystemExit"]
  ELSE IF Catches("Exception", st.raised)
    THEN [st EXCEPT !.prints = Append(@, "error_parsing"), !.raised = "SystemExit"]
  ELSE st

FetchOpcodesResult(resp) == ExceptClauses(TryBody(resp))

(***************************************************************************)
(* DalvikOpcodeExplorer.find_opcode                                        *)
(***************************************************************************)
\* lines 87-90: the values of the entries that match, in the dict's order
RECURSIVE PartialMatches(_, _)
PartialMatches(d, search_lower) ==
  IF d = << >> THEN << >>
  ELSE LET rest == PartialMatches(Tail(d), search_lower)
       IN  IF ~StartsWith(Head(d).k, HexPrefix) /\ Contains(search_lower, Head(d).k)
             THEN <<Head(d).v>> \o rest
             ELSE rest

FindOpcode(d, term) ==
  LET search_lower == Strip(Lower(term))
  IN  IF StartsWith(search_lower, HexPrefix)
        THEN [opcode |-> DictGet(d, search_lower, None), matches |-> << >>]
      ELSE IF DictHas(d, search_lower)
        THEN [opcode |-> DictGet(d, search_lower, None), matches |-> << >>]
      ELSE [opcode |-> None, matches |-> PartialMatches(d, search_lower)]

(***************************************************************************)
(* main                                                                    *)
(***************************************************************************)
\* line 163
NormalizeHex(hex) == Zfill(Strip(ReplaceAll(Lower(hex), ZeroX)), 2)

\* lines 159-164; NoneStr when neither branch assigns search_term
SearchTerm(a) ==
  IF TruthyStr(a.name) THEN a.name
  ELSE IF TruthyStr(a.hex) THEN HexPrefix \o NormalizeHex(a.hex)
  ELSE NoneStr

\* the group of lines 144-148 as if it were required but not exclusive
UsageErrorNotExclusive(a) == a.name = NoneStr /\ a.hex = NoneStr

\* the mutually exclusive, required group of lines 144-148
UsageError(a) ==
  (a.name # NoneStr /\ a.hex # NoneStr) \/ (a.name = NoneStr /\ a.hex = NoneStr)

Init ==
  /\ pc = "parse_args"
  /\ args = None
  /\ table = None
  /\ opcodes = << >>
  /\ names = << >>
  /\ hexes = << >>
  /\ search_term = NoneStr
  /\ result = None
  /\ output = << >>
  /\ exit_code = 0
  /\ uncaught = FALSE
  /\ fetches = 0

\* line 153: parser.parse_args(); a usage error prints usage and exits 2
ParseArgs ==
  /\ pc = "parse_args"
  /\ \E name \in NameArgs \cup {NoneStr}, hex \in HexArgs \cup {NoneStr}, verbose \in BOOLEAN :
       LET a == [name |-> name, hex |-> hex, verbose |-> verbose]
       IN  /\ args' = a
           /\ IF UsageError(a)
                THEN /\ pc' = "exited"
                     /\ exit_code' = 2
                     /\ output' = Append(output, "usage")
                ELSE /\ pc' = "construct"
                     /\ UNCHANGED <<exit_code, output>>
  /\ UNCHANGED <<table, opcodes, names, hexes, search_term, result, uncaught, fetches>>

\* line 156: DalvikOpcodeExplorer(), whose __init__ calls fetch_opcodes
Construct ==
  /\ pc = "construct"
  /\ \E resp \in Responses :
       \E st \in {FetchOpcodesResult(resp)} :
           /\ table' = resp
           /\ fetches' = fetches + 1
           /\ opcodes' = st.opcodes
           /\ names' = st.names
           /\ hexes' = st.hexes
           /\ output' = output \o st.prints
           /\ IF st.raised = ""
                THEN pc' = "lookup" /\ UNCHANGED exit_code
                ELSE pc' = "exited" /\ exit_code' = 1
           /\ uncaught' = (st.raised \notin {"", "SystemExit"})
  /\ UNCHANGED <<args, search_term, result>>

\* lines 158-167: choose the search term and call find_opcode
Lookup ==
  /\ pc = "lookup"
  /\ LET term == SearchTerm(args)
     IN  IF term = NoneStr
           THEN /\ pc' = "exited"
                /\ exit_code' = 1
                /\ uncaught' = TRUE
                /\ output' = Append(output, "traceback")
                /\ UNCHANGED <<search_term, result>>
           ELSE \E r \in {FindOpcode(opcodes, term)} :
                    /\ search_term' = term
                    /\ result' = r
                    /\ output' = IF r.matches # << >>
                                   THEN Append(output, "did_you_mean")
                                   ELSE output
                    /\ pc' = "display"
                    /\ UNCHANGED <<exit_code, uncaught>>
  /\ UNCHANGED <<args, table, opcodes, names, hexes, fetches>>

\* lines 169-191
DisplayLines(r, a) ==
  IF TruthyDict(r.opcode)
    THEN IF a.verbose THEN <<"opcode_record", "additional_info">>
                      ELSE <<"opcode_record">>
    ELSE IF ~TruthyStr(a.hex) THEN <<"no_opcode_found">> ELSE << >>

Display ==
  /\ pc = "display"
  /\ output' = output \o DisplayLines(result, args)
  /\ pc' = "exited"
  /\ exit_code' = 0
  /\ UNCHANGED <<args, table, opcodes, names, hexes, search_term, result,
                 uncaught, fetches>>

Next == ParseArgs \/ Construct \/ Lookup \/ Display

Spec == Init /\ [][Next]_vars

(***************************************************************************)
(* Vocabulary of the properties.                                           *)
(***************************************************************************)
\* find_opcode has returned
LookedUp == result # None

ByName == args # None /\ args.name # NoneStr

ByHex == args # None /\ args.hex # NoneStr

\* the fetched document held a table, whose rows were handed to the loop
TableFetched == table # None /\ table.status = "ok" /\ table.has_table

\* the rows the loop of line 37 indexes
Indexed(i) == Len(table.rows[i]) >= 3

Diagnostics == {"error_fetching", "error_no_table", "error_parsing"}

Printed(line) == \E i \in 1..Len(output) : output[i] = line

\* value with its surrounding spaces dropped and its letters lowercased
Folded(value) == Strip(Lower(value))

\* q spells the hex text H: any letter case, with or without a 0x prefix
SpellsHex(q, H) == Lower(q) \in {Lower(H), ZeroX \o Lower(H)}

\* the normalisation a hex query is specified to undergo
StripLeading0x(s) ==
  IF StartsWith(s, ZeroX) THEN SubSeq(s, 3, Len(s)) ELSE s

LeftPad(s, width) == IF Len(s) >= width THEN s ELSE Zeros(width - Len(s)) \o s

ReferenceHex(value) == LeftPad(StripLeading0x(Lower(value)), 2)

\* the records of the mnemonic keys that contain q, in insertion order
RECURSIVE KeysContaining(_, _)
KeysContaining(d, q) ==
  IF d = << >> THEN << >>
  ELSE IF Contains(q, Head(d).k)
         THEN <<Head(d).v>> \o KeysContaining(Tail(d), q)
         ELSE KeysContaining(Tail(d), q)

\* a query resolved against two separate mappings
TwoMapLookup(byname, byhex, a) ==
  IF a.name # NoneStr
    THEN LET q == Folded(a.name)
         IN  IF DictHas(byname, q)
               THEN [opcode |-> DictGet(byname, q, None), matches |-> << >>]
               ELSE [opcode |-> None, matches |-> KeysContaining(byname, q)]
    ELSE [opcode |-> DictGet(byhex, NormalizeHex(a.hex), None), matches |-> << >>]

(***************************************************************************)
(* C1: for every indexed row with a non-empty mnemonic (not repeated by a  *)
(* later row) and a non-empty hex cell H, a --hex query that spells H in   *)
(* any letter case, with or without "0x", is Found with the record that a  *)
(* --name query for the row's mnemonic returns.                            *)
(***************************************************************************)
C1_HexQueryFindsRow ==
  (LookedUp /\ ByHex /\ TableFetched) =>
    \A i \in 1..Len(table.rows) :
      LET row == table.rows[i]
          rec == RowRecord(row)
      IN  ( /\ Indexed(i)
            /\ rec.name # EmptyStr
            /\ rec.hex # EmptyStr
            /\ ~\E j \in (i + 1)..Len(table.rows) :
                  Indexed(j) /\ NameKey(RowRecord(table.rows[j]).name) = NameKey(rec.name)
            /\ SpellsHex(args.hex, rec.hex) )
          => /\ TruthyDict(result.opcode)
             /\ result.opcode = FindOpcode(opcodes, rec.name).opcode

(***************************************************************************)
(* C2: the key of a hex lookup is the reference normalisation of the       *)
(* --hex value (lowercase, one leading "0x" stripped, left-padded to 2),   *)
(* and a miss of that key is NotFound with no suggestions.                 *)
(***************************************************************************)
C2_HexKeyIsReference ==
  (LookedUp /\ ByHex) =>
    /\ Folded(search_term) = HexPrefix \o ReferenceHex(args.hex)
    /\ ~DictHas(opcodes, HexPrefix \o ReferenceHex(args.hex))
         => (result.opcode = None /\ result.matches = << >>)

(***************************************************************************)
(* C3: a --name query whose lowercased, trimmed value is a mnemonic key is *)
(* Found with the record stored for that mnemonic, and no suggestion list  *)
(* is produced.                                                            *)
(***************************************************************************)
C3_ExactMatchPriority ==
  (LookedUp /\ ByName /\ DictHas(names, Folded(args.name))) =>
    /\ result.opcode = DictGet(names, Folded(args.name), None)
    /\ result.matches = << >>
    /\ ~Printed("did_you_mean")

(***************************************************************************)
(* C4: a --name query with no exact mnemonic key yields no record, and its *)
(* suggestions are exactly the records of the mnemonic keys containing the *)
(* query, each once, in insertion order (none: NotFound).                  *)
(***************************************************************************)
C4_SuggestionsAreSubstringMatches ==
  (LookedUp /\ ByName /\ ~DictHas(names, Folded(args.name))) =>
    /\ result.opcode = None
    /\ result.matches = KeysContaining(names, Folded(args.name))
    /\ Printed("did_you_mean") = (result.matches # << >>)

(***************************************************************************)
(* C5: once the table is fetched and parsed, a run with exactly one of     *)
(* --name and --hex reaches the lookup and exits zero, having printed the  *)
(* record, or "not found" for --name, or nothing more for --hex; none ends *)
(* in an uncaught failure.                                                 *)
(***************************************************************************)
C5_QueryRunsExitZero ==
  (pc = "exited" /\ fetches = 1 /\ ~\E d \in Diagnostics : Printed(d)) =>
    /\ ~uncaught
    /\ exit_code = 0
    /\ LookedUp
    /\ \/ TruthyDict(result.opcode) /\ Printed("opcode_record")
       \/ ~TruthyDict(result.opcode) /\ ByName /\ Printed("no_opcode_found")
       \/ ~TruthyDict(result.opcode) /\ ByHex /\ ~Printed("opcode_record")
                                              /\ ~Printed("no_opcode_found")

(***************************************************************************)
(* C6: a usage error (neither, or both, of --name and --hex) ends the run  *)
(* with a nonzero exit and no fetch: no state holds both a usage error and *)
(* a started fetch.                                                        *)
(***************************************************************************)
C6_UsageErrorBeforeFetch ==
  (args # None /\ ((args.name = NoneStr) = (args.hex = NoneStr))) =>
    /\ pc = "exited"
    /\ exit_code # 0
    /\ fetches = 0
    /\ table = None
    /\ output = <<"usage">>

C6_Witness ==
  /\ pc = "exited"
  /\ args.name # NoneStr
  /\ args.hex # NoneStr
  /\ exit_code = 2

(***************************************************************************)
(* C7: a failed fetch (transport error, timeout, non-success status) or a  *)
(* document without a table ends the run with exactly one diagnostic and a *)
(* nonzero exit; there is one fetch, no lookup and no record display, and  *)
(* the exit is not caught again by the routine's own except clauses.       *)
(***************************************************************************)
C7_FetchFailureIsFatal ==
  (table # None /\ (table.status # "ok" \/ ~table.has_table)) =>
    /\ pc = "exited"
    /\ exit_code # 0
    /\ ~uncaught
    /\ fetches = 1
    /\ result = None
    /\ search_term = NoneStr
    /\ output = IF table.status # "ok" THEN <<"error_fetching">>
                                       ELSE <<"error_no_table">>

C7_Witness ==
  /\ pc = "exited"
  /\ table # None
  /\ table.status = "ok"
  /\ ~table.has_table
  /\ exit_code = 1

C9_EmptyMnemonicStoresPlaceholder ==
  TableFetched =>
    \A i \in 1..Len(table.rows) :
      LET rec == RowRecord(table.rows[i])
      IN  (Indexed(i) /\ rec.name = EmptyStr /\ rec.hex # EmptyStr) =>
            /\ ~Printed("error_parsing")
            /\ pc # "exited" \/ exit_code = 0 \/ uncaught
            /\ (~\E j \in (i + 1)..Len(table.rows) :
                   /\ Indexed(j)
                   /\ \/ RowRecord(table.rows[j]).hex = rec.hex
                      \/ NameKey(RowRecord(table.rows[j]).name) = HexKey(rec.hex))
                 => DictGet(opcodes, HexKey(rec.hex), None) = EmptyDict

(***************************************************************************)
(* C10: the single mapping with "hex:"-prefixed keys answers every query   *)
(* as two separate mappings (mnemonic to record, hex to record) do.        *)
(***************************************************************************)
C10_SingleMapEqualsTwoMaps ==
  LookedUp => result = TwoMapLookup(names, hexes, args)

====
